---------------------------- MODULE Spec2Model ----------------------------
(***************************************************************************)
(* A model of src/new.py, the "Free LCOH Model" Streamlit script: the      *)
(* parameter registry, calculate_model (the valuation engine), the         *)
(* "Optimize NPV" handler with its objective and money_constraint, and the *)
(* sensitivity sweep of tab 2.                                             *)
(*                                                                         *)
(* Numbers.  The script computes in Python floats.  The model computes in  *)
(* exact arithmetic: a number is (-1)^neg * num * 10^exp / den, with num   *)
(* and den naturals kept as little-endian limb sequences, so every value   *)
(* the code can be handed (0.094392926, 1e-9, 999999999) is represented    *)
(* exactly and no product is cut to a machine word.  Rounding of IEEE      *)
(* doubles is not modelled.  Fractions are not reduced: two numbers are    *)
(* compared with RatEq / RatLt, never with =.                              *)
(***************************************************************************)
EXTENDS Integers, Sequences, FiniteSets, TLC

\* -------------------------------------------------------------------------
\* Arithmetic: naturals of any size, as limb sequences (least significant
\* first, no leading zero limb, the empty sequence is 0).
\* -------------------------------------------------------------------------

\* The radix of a limb: four decimal digits, so that a product of two limbs
\* plus a carry stays below 2^31.
Base == 100 * 100

RECURSIVE BigOf(_)
BigOf(n) == IF n = 0 THEN <<>> ELSE <<n % Base>> \o BigOf(n \div Base)

RECURSIVE BStrip(_)
BStrip(a) ==
    IF a = <<>> THEN <<>>
    ELSE IF a[Len(a)] = 0 THEN BStrip(SubSeq(a, 1, Len(a) - 1))
    ELSE a

RECURSIVE BAddC(_, _, _)
BAddC(a, b, c) ==
    IF a = <<>> THEN
        (IF c = 0 THEN b ELSE IF b = <<>> THEN <<c>>
         ELSE LET s == Head(b) + c
              IN  <<s % Base>> \o BAddC(<<>>, Tail(b), s \div Base))
    ELSE IF b = <<>> THEN BAddC(b, a, c)
    ELSE LET s == Head(a) + Head(b) + c
         IN  <<s % Base>> \o BAddC(Tail(a), Tail(b), s \div Base)

BAdd(a, b) == BAddC(a, b, 0)

\* a - b for a >= b, before the leading zero limbs are stripped.
RECURSIVE BSubC(_, _, _)
BSubC(a, b, c) ==
    IF a = <<>> THEN <<>>
    ELSE IF b = <<>> /\ c = 0 THEN a
    ELSE LET y == IF b = <<>> THEN 0 ELSE Head(b)
             tb == IF b = <<>> THEN <<>> ELSE Tail(b)
             d == Head(a) - y - c
         IN  IF d < 0 THEN <<d + Base>> \o BSubC(Tail(a), tb, 1)
             ELSE <<d>> \o BSubC(Tail(a), tb, 0)

BSub(a, b) == BStrip(BSubC(a, b, 0))

\* -1, 0, 1 as a < b, a = b, a > b; i runs from the most significant limb.
RECURSIVE BCmpAt(_, _, _)
BCmpAt(a, b, i) ==
    IF i = 0 THEN 0
    ELSE IF a[i] < b[i] THEN -1
    ELSE IF a[i] > b[i] THEN 1
    ELSE BCmpAt(a, b, i - 1)

BCmp(a, b) ==
    IF Len(a) < Len(b) THEN -1
    ELSE IF Len(a) > Len(b) THEN 1
    ELSE BCmpAt(a, b, Len(a))

RECURSIVE BMulLimb(_, _, _)
BMulLimb(a, m, c) ==
    IF a = <<>> THEN (IF c = 0 THEN <<>> ELSE <<c>>)
    ELSE LET p == Head(a) * m + c
         IN  <<p % Base>> \o BMulLimb(Tail(a), m, p \div Base)

BShift(a) == IF a = <<>> THEN <<>> ELSE <<0>> \o a

RECURSIVE BMulRec(_, _)
BMulRec(a, b) ==
    IF b = <<>> THEN <<>>
    ELSE BAdd(BMulLimb(a, Head(b), 0), BShift(BMulRec(a, Tail(b))))

BMul(a, b) ==
    IF a = <<>> \/ b = <<>> THEN <<>>
    ELSE IF a = <<1>> THEN b
    ELSE IF b = <<1>> THEN a
    ELSE IF Len(a) >= Len(b) THEN BMulRec(a, b)
    ELSE BMulRec(b, a)

\* a * 10^n, n >= 0.
BScale(a, n) ==
    IF a = <<>> \/ n = 0 THEN a
    ELSE LET r == n % 4
             m == IF r = 0 THEN 1 ELSE IF r = 1 THEN 10
                  ELSE IF r = 2 THEN 100 ELSE 1000
         IN  [i \in 1..(n \div 4) |-> 0]
             \o (IF m = 1 THEN a ELSE BMulLimb(a, m, 0))

\* -------------------------------------------------------------------------
\* Numbers: [neg, num, den, exp] is (-1)^neg * num * 10^exp / den, with
\* den > 0; zero is [FALSE, 0, 1, 0].  A number whose den is 0 is the
\* result of a division by zero (Python raises ZeroDivisionError there).
\* -------------------------------------------------------------------------

Mk(neg, num, den, exp) ==
    IF num = <<>> /\ den # <<>>
    THEN [neg |-> FALSE, num |-> <<>>, den |-> <<1>>, exp |-> 0]
    ELSE [neg |-> neg, num |-> num, den |-> den, exp |-> exp]

\* The decimal literal n * 10^(-places) of a machine integer n; the trailing
\* zeros of n go to the exponent.
RECURSIVE Dec(_, _)
Dec(n, places) ==
    IF n # 0 /\ n % 10 = 0 THEN Dec(n \div 10, places - 1)
    ELSE Mk(n < 0, BigOf(IF n < 0 THEN -n ELSE n), <<1>>, -places)

Num(n) == Dec(n, 0)

Zero == Num(0)

IsZero(x) == x.num = <<>> /\ x.den # <<>>

Defined(x) == x.den # <<>>

RatNeg(x) == Mk(~x.neg, x.num, x.den, x.exp)

\* The sum of two signed magnitudes over one denominator and exponent.
SignedSum(an, a, bn, b, den, exp) ==
    IF an = bn THEN Mk(an, BAdd(a, b), den, exp)
    ELSE IF BCmp(a, b) >= 0 THEN Mk(an, BSub(a, b), den, exp)
    ELSE Mk(bn, BSub(b, a), den, exp)

RatAdd(x, y) ==
    IF IsZero(x) THEN y
    ELSE IF IsZero(y) THEN x
    ELSE LET e == IF x.exp < y.exp THEN x.exp ELSE y.exp
             xn == BScale(x.num, x.exp - e)
             yn == BScale(y.num, y.exp - e)
         IN  IF x.den = y.den
             THEN SignedSum(x.neg, xn, y.neg, yn, x.den, e)
             ELSE SignedSum(x.neg, BMul(xn, y.den), y.neg, BMul(yn, x.den),
                            BMul(x.den, y.den), e)

RatSub(x, y) == RatAdd(x, RatNeg(y))

RatMul(x, y) ==
    Mk(x.neg # y.neg, BMul(x.num, y.num), BMul(x.den, y.den), x.exp + y.exp)

RatDiv(x, y) ==
    Mk(x.neg # y.neg, BMul(x.num, y.den), BMul(x.den, y.num), x.exp - y.exp)

Sign(d) == IF IsZero(d) THEN 0 ELSE IF d.neg THEN -1 ELSE 1

\* -1, 0, 1 as x < y, x = y, x > y.
RatCmp(x, y) == Sign(RatSub(x, y))

RatEq(x, y) == RatCmp(x, y) = 0
RatLt(x, y) == RatCmp(x, y) < 0
RatLe(x, y) == RatCmp(x, y) <= 0
RatGt(x, y) == RatCmp(x, y) > 0

\* -------------------------------------------------------------------------
\* The parameter registry (the list "parameters").
\* -------------------------------------------------------------------------

parameters == <<
    [key |-> "capex_mw_yr", default_value |-> Num(3242),
     min_value |-> Num(0), max_value |-> Num(999999999),
     in_optimization |-> TRUE],
    [key |-> "opex_mw_yr", default_value |-> Num(90000),
     min_value |-> Num(0), max_value |-> Num(999999999),
     in_optimization |-> TRUE],
    [key |-> "annual_h2_prod", default_value |-> Num(876000),
     min_value |-> Num(0), max_value |-> Num(999999999),
     in_optimization |-> FALSE],
    [key |-> "plant_size_mw", default_value |-> Num(100),
     min_value |-> Num(0), max_value |-> Num(999999),
     in_optimization |-> FALSE],
    [key |-> "plant_life", default_value |-> Num(20),
     min_value |-> Num(1), max_value |-> Num(30),
     in_optimization |-> FALSE],
    [key |-> "discount_rate", default_value |-> Num(5),
     min_value |-> Num(0), max_value |-> Num(15),
     in_optimization |-> FALSE],
    [key |-> "capacity_factor", default_value |-> Num(90),
     min_value |-> Num(0), max_value |-> Num(100),
     in_optimization |-> TRUE],
    [key |-> "h2_efficiency_1", default_value |-> Num(50),
     min_value |-> Num(0), max_value |-> Num(9999),
     in_optimization |-> FALSE],
    [key |-> "h2_efficiency_2", default_value |-> Num(70),
     min_value |-> Num(0), max_value |-> Num(9999),
     in_optimization |-> FALSE],
    [key |-> "electricity_cost", default_value |-> Num(3),
     min_value |-> Num(1), max_value |-> Num(700),
     in_optimization |-> TRUE],
    [key |-> "crf", default_value |-> Dec(94392926, 9),
     min_value |-> Num(0), max_value |-> Num(1),
     in_optimization |-> FALSE],
    [key |-> "dcf_factor", default_value |-> Dec(1059401425, 8),
     min_value |-> Num(0), max_value |-> Num(999999),
     in_optimization |-> FALSE],
    [key |-> "h2_selling_price", default_value |-> Dec(35, 1),
     min_value |-> Num(0), max_value |-> Num(999999),
     in_optimization |-> TRUE],
    [key |-> "carbon_tax", default_value |-> Num(0),
     min_value |-> Num(0), max_value |-> Num(999999),
     in_optimization |-> TRUE],
    [key |-> "tax_credit", default_value |-> Num(0),
     min_value |-> Num(0), max_value |-> Num(999999),
     in_optimization |-> TRUE],
    [key |-> "h2_storage_cost", default_value |-> Num(1),
     min_value |-> Num(1), max_value |-> Num(700),
     in_optimization |-> FALSE],
    [key |-> "h2_transport_cost", default_value |-> Num(0),
     min_value |-> Num(0), max_value |-> Num(999999),
     in_optimization |-> FALSE]
>>

Keys == {parameters[i].key : i \in DOMAIN parameters}

\* -------------------------------------------------------------------------
\* calculate_model: the valuation engine.
\* -------------------------------------------------------------------------

\* The keys calculate_model subscripts vals with, in the order it reads them.
ReadKeys ==
    << "capex_mw_yr", "opex_mw_yr", "annual_h2_prod", "plant_life",
       "discount_rate", "capacity_factor", "h2_efficiency_1",
       "h2_efficiency_2", "electricity_cost", "crf", "dcf_factor",
       "h2_selling_price", "carbon_tax", "tax_credit", "h2_storage_cost",
       "h2_transport_cost" >>

\* vals[k] of a dict raises KeyError(k) at the first key that is missing.
MissingKeys(vals) == {i \in DOMAIN ReadKeys : ReadKeys[i] \notin DOMAIN vals}

FirstMissing(vals) ==
    ReadKeys[CHOOSE i \in MissingKeys(vals) :
                 \A j \in MissingKeys(vals) : i <= j]

\* 1e-9, the divisor that replaces a production volume that is not positive.
Epsilon == Dec(1, 9)

\* The guard written "annual_prod < 0": a production of exactly 0 reaches
\* the divisions (C5).
AnnualProdStrict(annual_h2_prod) ==
    IF RatLt(annual_h2_prod, Zero) THEN Dec(1, 9) ELSE annual_h2_prod

\* annual_prod after "if annual_prod <= 0: annual_prod = 1e-9".
AnnualProd(annual_h2_prod) ==
    IF RatLe(annual_h2_prod, Zero) THEN Epsilon ELSE annual_h2_prod

\* capex_per_kg without the capital recovery factor (C8).
CapexPerKgNoCrf(capex_yr, crf, annual_prod) == RatDiv(capex_yr, annual_prod)

CapexPerKg(capex_yr, crf, annual_prod) ==
    RatDiv(RatMul(capex_yr, crf), annual_prod)

OpexPerKg(opex_yr, annual_prod) == RatDiv(opex_yr, annual_prod)

ElecPerKg(eff1, eff2, elec_cost) ==
    RatMul(RatAdd(eff1, eff2), RatDiv(elec_cost, Num(1000)))

CarbonTaxPerKg(carbon_tax_ton) == RatDiv(carbon_tax_ton, Num(1000))

\* lcoh with the tax credit added instead of subtracted (C1).
LcohAddsCredit(capex_per_kg, opex_per_kg, elec_per_kg, carbon_tax_per_kg, storage_cost, transport_cost, tax_credit) ==
    RatAdd(RatAdd(RatAdd(RatAdd(RatAdd(RatAdd(capex_per_kg, opex_per_kg),
                                       elec_per_kg),
                                carbon_tax_per_kg),
                         storage_cost),
                  transport_cost),
           tax_credit)

Lcoh(capex_per_kg, opex_per_kg, elec_per_kg, carbon_tax_per_kg, storage_cost, transport_cost, tax_credit) ==
    RatSub(RatAdd(RatAdd(RatAdd(RatAdd(RatAdd(capex_per_kg, opex_per_kg),
                                       elec_per_kg),
                                carbon_tax_per_kg),
                         storage_cost),
                  transport_cost),
           tax_credit)

MoneyCheck(lcoh, h2_price) ==
    IF RatLt(lcoh, h2_price) THEN "Money" ELSE "No Money"

\* roi without the "if total_cost != 0" guard (C3).
RoiUnguarded(profit, total_cost) ==
    RatMul(RatDiv(profit, total_cost), Num(100))

\* roi = 0.0, replaced by profit / total_cost * 100 when total_cost != 0.
Roi(profit, total_cost) ==
    IF ~IsZero(total_cost)
    THEN RatMul(RatDiv(profit, total_cost), Num(100))
    ELSE Zero

\* payback = 0.0, replaced by 5.0 when profit > 0.
Payback(profit) == IF RatGt(profit, Zero) THEN Num(5) ELSE Zero

\* The return statement: npv, payback, roi and the dict of the results.
Valuation(vals, capex_per_kg, opex_per_kg, elec_per_kg, carbon_tax_per_kg, lcoh, revenue, total_cost, profit) ==
    [error |-> "none",
     capex_per_kg |-> capex_per_kg,
     opex_per_kg |-> opex_per_kg,
     elec_per_kg |-> elec_per_kg,
     carbon_tax_per_kg |-> carbon_tax_per_kg,
     lcoh |-> lcoh,
     money_check |-> MoneyCheck(lcoh, vals["h2_selling_price"]),
     revenue |-> revenue,
     cost |-> total_cost,
     profit |-> profit,
     npv |-> RatMul(profit, vals["dcf_factor"]),
     payback |-> Payback(profit),
     roi |-> Roi(profit, total_cost)]

\* profit = revenue - total_cost
WithProfit(vals, capex_per_kg, opex_per_kg, elec_per_kg, carbon_tax_per_kg, lcoh, revenue, total_cost) ==
    Valuation(vals, capex_per_kg, opex_per_kg, elec_per_kg,
              carbon_tax_per_kg, lcoh, revenue, total_cost,
              RatSub(revenue, total_cost))

\* revenue = h2_price * annual_prod; total_cost = lcoh * annual_prod
WithTotals(vals, annual_prod, capex_per_kg, opex_per_kg, elec_per_kg, carbon_tax_per_kg, lcoh) ==
    WithProfit(vals, capex_per_kg, opex_per_kg, elec_per_kg,
               carbon_tax_per_kg, lcoh,
               RatMul(vals["h2_selling_price"], annual_prod),
               RatMul(lcoh, annual_prod))

\* lcoh, from the four components and the three per-kg inputs.
WithLcoh(vals, annual_prod, capex_per_kg, opex_per_kg, elec_per_kg, carbon_tax_per_kg) ==
    WithTotals(vals, annual_prod, capex_per_kg, opex_per_kg, elec_per_kg,
               carbon_tax_per_kg,
               Lcoh(capex_per_kg, opex_per_kg, elec_per_kg,
                    carbon_tax_per_kg, vals["h2_storage_cost"],
                    vals["h2_transport_cost"], vals["tax_credit"]))

\* The components with the production volume scaled by the capacity
\* factor, capacity_factor / 100.0 being used after all (C9).
ComponentsAtCapacity(vals, annual_prod) ==
    WithLcoh(vals,
             RatMul(annual_prod, RatDiv(vals["capacity_factor"], Num(100))),
             RatDiv(RatMul(vals["capex_mw_yr"], vals["crf"]),
                    RatMul(annual_prod,
                           RatDiv(vals["capacity_factor"], Num(100)))),
             RatDiv(vals["opex_mw_yr"],
                    RatMul(annual_prod,
                           RatDiv(vals["capacity_factor"], Num(100)))),
             RatMul(RatAdd(vals["h2_efficiency_1"], vals["h2_efficiency_2"]),
                    RatDiv(vals["electricity_cost"], Num(1000))),
             RatDiv(vals["carbon_tax"], Num(1000)))

\* The components in $/kg.  plant_life, discount_rate / 100.0 and
\* capacity_factor / 100.0 are read into locals that nothing uses.
Components(vals, annual_prod) ==
    WithLcoh(vals, annual_prod,
             CapexPerKg(vals["capex_mw_yr"], vals["crf"], annual_prod),
             OpexPerKg(vals["opex_mw_yr"], annual_prod),
             ElecPerKg(vals["h2_efficiency_1"], vals["h2_efficiency_2"],
                       vals["electricity_cost"]),
             CarbonTaxPerKg(vals["carbon_tax"]))

\* The body of calculate_model runs top to bottom; each operator above is
\* the rest of the body after the locals it is handed have been computed.
calculate_model(vals) ==
    IF MissingKeys(vals) # {}
    THEN [error |-> "KeyError", key |-> FirstMissing(vals)]
    ELSE Components(vals, AnnualProd(vals["annual_h2_prod"]))

\* -------------------------------------------------------------------------
\* The script.  Streamlit executes the whole file once per interaction:
\* user_values and opt_flags are created empty and filled from the widgets,
\* the results are computed, the "Optimize NPV" handler runs when the button
\* was the interaction, and the sensitivity tab is rendered.
\* -------------------------------------------------------------------------

KeyOrder == [i \in DOMAIN parameters |-> parameters[i].key]

\* The widget table of the first run: every number_input and checkbox holds
\* the value the registry gives it.
RegistryTable ==
    [k \in Keys |->
        LET p == parameters[CHOOSE i \in DOMAIN parameters :
                                parameters[i].key = k]
        IN  [val |-> p.default_value, min |-> p.min_value,
             max |-> p.max_value, opt |-> p.in_optimization]]

\* user_values[param["key"]] = val
UserValues(tbl) == [k \in Keys |-> tbl[k].val]

\* opt_flags[param["key"]] = {"min": mn, "max": mx, "in_opt": in_opt}
OptFlags(tbl) ==
    [k \in Keys |-> [min |-> tbl[k].min, max |-> tbl[k].max,
                     in_opt |-> tbl[k].opt]]

\* decision_keys = [p["key"] for p in parameters if opt_flags[..]["in_opt"]]
DecisionKeys(flags) == SelectSeq(KeyOrder, LAMBDA k : flags[k].in_opt)

\* x0.append(user_values[k])
X0(vals, dv_keys) == [i \in DOMAIN dv_keys |-> vals[dv_keys[i]]]

\* bounds.append((opt_flags[k]["min"], opt_flags[k]["max"]))
Bounds(flags, dv_keys) ==
    [i \in DOMAIN dv_keys |-> <<flags[dv_keys[i]].min, flags[dv_keys[i]].max>>]

\* new_vals = fixed_params.copy(); new_vals[k] = x[i] for each i, k.  The
\* last write to a key wins.
Overlay(fixed_params, dv_keys, x) ==
    [k \in DOMAIN fixed_params \cup {dv_keys[i] : i \in DOMAIN dv_keys} |->
        IF \E i \in DOMAIN dv_keys : dv_keys[i] = k
        THEN x[CHOOSE i \in DOMAIN dv_keys :
                   /\ dv_keys[i] = k
                   /\ \A j \in DOMAIN dv_keys : dv_keys[j] = k => j <= i]
        ELSE fixed_params[k]]

\* The overlay written into fixed_params itself, ".copy()" left out (C10).
OverlayInPlace(fixed_params, dv_keys, x) ==
    [new_vals |-> Overlay(fixed_params, dv_keys, x),
     fixed_params |-> Overlay(fixed_params, dv_keys, x)]

\* What a call of objective or money_constraint leaves behind: the dict it
\* evaluated, and the caller's dict, which the copy protects.
CopyAndOverlay(fixed_params, dv_keys, x) ==
    [new_vals |-> Overlay(fixed_params, dv_keys, x),
     fixed_params |-> fixed_params]

objective(x, fixed_params, dv_keys) ==
    LET new_vals == CopyAndOverlay(fixed_params, dv_keys, x).new_vals
        out == calculate_model(new_vals)
    IN  RatNeg(out.npv)

money_constraint(x, fixed_params, dv_keys) ==
    LET new_vals == CopyAndOverlay(fixed_params, dv_keys, x).new_vals
        out == calculate_model(new_vals)
    IN  RatSub(new_vals["h2_selling_price"], out.lcoh)

\* cons: the list of constraint functions handed to minimize.
Constraints(enforce) == IF enforce THEN <<"money_constraint">> ELSE <<>>

\* -------------------------------------------------------------------------
\* scipy.optimize.minimize(method="SLSQP"), by its contract: it returns a
\* point within the bounds; when it reports success every inequality
\* constraint is >= 0 there; when it fails it says why in res.message.
\* Which point it returns is its own business: any of SolverPoints.
\* -------------------------------------------------------------------------

SuccessMessage == "Optimization terminated successfully"

FailureMessages ==
    {"Iteration limit reached", "Inequality constraints incompatible"}

\* The points the model lets the solver return: the start, the two corners
\* of the box, and the two corners that alternate lower and upper bounds.
SolverPoints(start, bnds) ==
    { start,
      [i \in DOMAIN start |-> bnds[i][1]],
      [i \in DOMAIN start |-> bnds[i][2]],
      [i \in DOMAIN start |-> bnds[i][1 + (i % 2)]],
      [i \in DOMAIN start |-> bnds[i][2 - (i % 2)]] }

InBounds(x, bnds) ==
    \A i \in DOMAIN x : RatLe(bnds[i][1], x[i]) /\ RatLe(x[i], bnds[i][2])

Minimize(start, fixed_params, dv_keys, bnds, cons) ==
    LET pts == {x \in SolverPoints(start, bnds) : InBounds(x, bnds)}
        ok == {x \in pts :
                 \A c \in DOMAIN cons :
                     RatLe(Zero, money_constraint(x, fixed_params, dv_keys))}
    IN  {[called |-> TRUE, success |-> TRUE, x |-> x,
          fun |-> objective(x, fixed_params, dv_keys),
          message |-> SuccessMessage] : x \in ok}
        \cup
        {[called |-> TRUE, success |-> FALSE, x |-> start,
          fun |-> objective(start, fixed_params, dv_keys),
          message |-> m] : m \in FailureMessages}

\* No call of minimize in this run.
NoRes == [called |-> FALSE]

\* -------------------------------------------------------------------------
\* The "Optimize NPV" handler.
\* -------------------------------------------------------------------------

FailureText == "Optimization failed. Try adjusting bounds or constraints."

\* final_params = user_values.copy(); final_params[k] = res.x[i]
FinalParams(vals, dv_keys, x) == Overlay(vals, dv_keys, x)

\* The page after a success: the message, the decision variables, and the
\* final NPV, LCOH and Money/No Money.
ShownSuccess(r, dv_keys, final_res) ==
    [kind |-> "success",
     text |-> "Optimization successful!",
     variables |-> [i \in DOMAIN dv_keys |-> <<dv_keys[i], r.x[i]>>],
     npv |-> final_res.npv,
     lcoh |-> final_res.lcoh,
     money_check |-> final_res.money_check]

\* The handler with st.error(res.message) in its else branch (C6).
ShownWithMessage(r, vals, dv_keys) ==
    IF r.success
    THEN ShownSuccess(r, dv_keys,
                      calculate_model(FinalParams(vals, dv_keys, r.x)))
    ELSE [kind |-> "error", text |-> r.message]

\* What the handler writes to the page for the solver's result r.
Shown(r, vals, dv_keys) ==
    IF r.success
    THEN ShownSuccess(r, dv_keys,
                      calculate_model(FinalParams(vals, dv_keys, r.x)))
    ELSE [kind |-> "error", text |-> FailureText]

NothingShown == [kind |-> "none"]

NoParams == <<>>

NotComputed == [error |-> "not computed"]

\* -------------------------------------------------------------------------
\* The sensitivity tab.
\* -------------------------------------------------------------------------

\* The number of samples of a sweep.
Steps == 20

\* numpy.linspace(start, stop, num, endpoint=False): the step is (stop -
\* start) / num and stop is not a sample (C7).
LinspaceOpen(start, stop, num) ==
    [i \in 1..num |->
        RatAdd(RatMul(Num(i - 1), RatDiv(RatSub(stop, start), Num(num))),
               start)]

\* numpy.linspace(start, stop, num): start + i * step for i = 0 .. num - 1
\* with step = (stop - start) / (num - 1), the last sample set to stop.
Linspace(start, stop, num) ==
    LET step == RatDiv(RatSub(stop, start), Num(num - 1))
    IN  [i \in 1..num |->
            IF i = num /\ num > 1 THEN stop
            ELSE RatAdd(RatMul(Num(i - 1), step), start)]

\* temp_params = user_values.copy(); temp_params[k] = val: the dict the
\* sample is computed from, and user_values, which the copy protects.
CopyAndSet(vals, k, val) ==
    [temp_params |-> [vals EXCEPT ![k] = val], user_values |-> vals]

\* out = calculate_model(temp_params); one row of data_rows: the sample and
\* the NPV at it, with the dict the NPV was computed from.
RowOf(val, temp_params) ==
    [ParamValue |-> val,
     NPV |-> calculate_model(temp_params).npv,
     temp_params |-> temp_params]

Row(vals, k, val) == RowOf(val, CopyAndSet(vals, k, val).temp_params)

\* data_rows of decision key k over the samples steps.
RowsOver(vals, k, steps) == [i \in DOMAIN steps |-> Row(vals, k, steps[i])]

DataRows(vals, flags, k) ==
    RowsOver(vals, k, Linspace(flags[k].min, flags[k].max, Steps))

\* user_values after the loops of the tab.
AfterSweep(vals, flags, dv_keys) ==
    IF dv_keys = <<>> THEN vals
    ELSE LET k == dv_keys[Len(dv_keys)]
         IN  CopyAndSet(vals, k, flags[k].max).user_values

\* The charts of the tab, one per decision key; st.info when there is none.
Plots(vals, flags, dv_keys) ==
    [info |-> Len(dv_keys) = 0,
     charts |-> [k \in {dv_keys[i] : i \in DOMAIN dv_keys} |->
                    DataRows(vals, flags, k)]]

\* -------------------------------------------------------------------------
\* One run of the script over the widget table tbl and the checkbox enf;
\* clicked says whether the button was pressed, r is what minimize returned
\* (NoRes when the button was not pressed).
\* -------------------------------------------------------------------------

\* The state a run leaves, from the dicts and lists it has built: vals and
\* flags as the table loop filled them, dv_keys, and user_values as the
\* solver's calls of objective left it.
RunState(tbl, enf, clicked, r, vals, flags, dv_keys, after) ==
    [table |-> tbl,
     enforce_money |-> enf,
     user_values |-> AfterSweep(after, flags, dv_keys),
     opt_flags |-> flags,
     results |-> calculate_model(vals),
     decision_keys |-> dv_keys,
     x0 |-> X0(vals, dv_keys),
     bounds |-> Bounds(flags, dv_keys),
     button |-> clicked,
     solver_calls |-> IF clicked THEN 1 ELSE 0,
     res |-> r,
     probes |-> IF clicked
                THEN {CopyAndOverlay(vals, dv_keys, x).new_vals :
                          x \in {X0(vals, dv_keys), r.x}}
                ELSE {},
     final_params |-> IF clicked /\ r.success
                      THEN FinalParams(after, dv_keys, r.x)
                      ELSE NoParams,
     final_res |-> IF clicked /\ r.success
                   THEN calculate_model(FinalParams(after, dv_keys, r.x))
                   ELSE NotComputed,
     shown |-> IF clicked THEN Shown(r, after, dv_keys) ELSE NothingShown,
     plots |-> Plots(after, flags, dv_keys)]

RunWith(tbl, enf, clicked, r, vals, flags, dv_keys) ==
    RunState(tbl, enf, clicked, r, vals, flags, dv_keys,
             IF clicked
             THEN CopyAndOverlay(vals, dv_keys, r.x).fixed_params
             ELSE vals)

Script(tbl, enf, clicked, r) ==
    RunWith(tbl, enf, clicked, r, UserValues(tbl), OptFlags(tbl),
            DecisionKeys(OptFlags(tbl)))

\* -------------------------------------------------------------------------
\* State.
\* -------------------------------------------------------------------------

VARIABLES
    table,          \* the widgets of the parameter table: val, min, max, opt
    enforce_money,  \* the checkbox "Enforce LCOH < H2 Selling Price?"
    user_values,    \* the dict user_values at the end of the run
    opt_flags,      \* the dict opt_flags
    results,        \* results = calculate_model(user_values), displayed
    decision_keys,  \* the list decision_keys
    x0,             \* the list x0
    bounds,         \* the list bounds
    button,         \* st.button("Optimize NPV") in this run
    solver_calls,   \* the calls of minimize in this run
    res,            \* what minimize returned
    probes,         \* the dicts objective handed to calculate_model
    final_params,   \* the handler's final_params
    final_res,      \* the handler's final_res
    shown,          \* what the handler wrote to the page
    plots,          \* the sensitivity tab
    arg,            \* evaluate: the assignment handed to calculate_model
    ret             \* evaluate: what calculate_model returned

session == <<table, enforce_money, user_values, opt_flags, results,
             decision_keys, x0, bounds, button, solver_calls, res, probes,
             final_params, final_res, shown, plots>>

vars == <<session, arg, ret>>

\* The state is the one the run s left.
Is(s) ==
    /\ table = s.table
    /\ enforce_money = s.enforce_money
    /\ user_values = s.user_values
    /\ opt_flags = s.opt_flags
    /\ results = s.results
    /\ decision_keys = s.decision_keys
    /\ x0 = s.x0
    /\ bounds = s.bounds
    /\ button = s.button
    /\ solver_calls = s.solver_calls
    /\ res = s.res
    /\ probes = s.probes
    /\ final_params = s.final_params
    /\ final_res = s.final_res
    /\ shown = s.shown
    /\ plots = s.plots

Becomes(s) ==
    /\ table' = s.table
    /\ enforce_money' = s.enforce_money
    /\ user_values' = s.user_values
    /\ opt_flags' = s.opt_flags
    /\ results' = s.results
    /\ decision_keys' = s.decision_keys
    /\ x0' = s.x0
    /\ bounds' = s.bounds
    /\ button' = s.button
    /\ solver_calls' = s.solver_calls
    /\ res' = s.res
    /\ probes' = s.probes
    /\ final_params' = s.final_params
    /\ final_res' = s.final_res
    /\ shown' = s.shown
    /\ plots' = s.plots


\* -------------------------------------------------------------------------
\* The interactions the model explores.
\* -------------------------------------------------------------------------

\* The registry's table with every "In the optimization" box unchecked.
NothingChecked == [k \in Keys |-> [RegistryTable[k] EXCEPT !.opt = FALSE]]

\* The tables a session of the model starts from.
InitTables == {RegistryTable, NothingChecked}

\* The checkboxes the model clicks: the first NToggle of ToggleList.
ToggleList == <<"capex_mw_yr", "capacity_factor", "electricity_cost">>

NToggle == 1

ToggleKeys ==
    {ToggleList[i] : i \in {j \in DOMAIN ToggleList : j <= NToggle}}

\* The numbers the model types into the value column.
ValueChoices(k) ==
    IF k = "opex_mw_yr" THEN {Num(90000), Num(1874640)} ELSE {}

\* The numbers the model types into the min and max columns.
MinChoices(k) == IF k = "capex_mw_yr" THEN {Num(0), Num(100)} ELSE {}

MaxChoices(k) ==
    IF k = "capex_mw_yr" THEN {Num(999999999), Num(5000)} ELSE {}

\* The model presses the button when at most this many keys are checked.
MaxDecisionVars == 1

NotCalled == [error |-> "not called"]

Init ==
    /\ \E t \in InitTables : Is(Script(t, FALSE, FALSE, NoRes))
    /\ arg = NoParams
    /\ ret = NotCalled

\* The value column: st.number_input keeps val within the registry's
\* [min_value, max_value].
EditValue ==
    \E k \in Keys : \E v \in ValueChoices(k) :
        /\ v # table[k].val
        /\ RatLe(RegistryTable[k].min, v) /\ RatLe(v, RegistryTable[k].max)
        /\ Becomes(Script([table EXCEPT ![k].val = v], enforce_money,
                          FALSE, NoRes))
        /\ UNCHANGED <<arg, ret>>

\* The min column: any number.
EditMin ==
    \E k \in Keys : \E v \in MinChoices(k) :
        /\ v # table[k].min
        /\ Becomes(Script([table EXCEPT ![k].min = v], enforce_money,
                          FALSE, NoRes))
        /\ UNCHANGED <<arg, ret>>

\* The max column: any number.
EditMax ==
    \E k \in Keys : \E v \in MaxChoices(k) :
        /\ v # table[k].max
        /\ Becomes(Script([table EXCEPT ![k].max = v], enforce_money,
                          FALSE, NoRes))
        /\ UNCHANGED <<arg, ret>>

\* The "In the optimization" column.
ToggleOpt ==
    \E k \in ToggleKeys :
        /\ Becomes(Script([table EXCEPT ![k].opt = ~table[k].opt],
                          enforce_money, FALSE, NoRes))
        /\ UNCHANGED <<arg, ret>>

ToggleEnforce ==
    /\ Becomes(Script(table, ~enforce_money, FALSE, NoRes))
    /\ UNCHANGED <<arg, ret>>

\* The button: the run calls minimize once and shows what it returned.
ClickOptimize ==
    /\ Len(decision_keys) <= MaxDecisionVars
    /\ \E r \in Minimize(X0(UserValues(table), DecisionKeys(OptFlags(table))),
                      UserValues(table),
                      DecisionKeys(OptFlags(table)),
                      Bounds(OptFlags(table), DecisionKeys(OptFlags(table))),
                      Constraints(enforce_money)) :
           /\ Becomes(Script(table, enforce_money, TRUE, r))
           /\ UNCHANGED <<arg, ret>>

Next ==
    \/ EditValue
    \/ EditMin
    \/ EditMax
    \/ ToggleOpt
    \/ ToggleEnforce
    \/ ClickOptimize

Spec == Init /\ [][Next]_vars


\* -------------------------------------------------------------------------
\* evaluate: calculate_model as a function of the assignment it is handed.
\* -------------------------------------------------------------------------

\* The assignment of the worked example: thirteen keys.
ExampleGiven ==
    ("capex_mw_yr" :> Num(3242)) @@ ("opex_mw_yr" :> Num(90000))
    @@ ("annual_h2_prod" :> Num(876000)) @@ ("crf" :> Dec(94392926, 9))
    @@ ("h2_efficiency_1" :> Num(50)) @@ ("h2_efficiency_2" :> Num(70))
    @@ ("electricity_cost" :> Num(3)) @@ ("carbon_tax" :> Num(0))
    @@ ("tax_credit" :> Num(0)) @@ ("h2_storage_cost" :> Num(1))
    @@ ("h2_transport_cost" :> Num(0)) @@ ("h2_selling_price" :> Dec(35, 1))
    @@ ("dcf_factor" :> Dec(1059401425, 8))

\* The three keys calculate_model reads besides those of the example.
UnusedKeys == {"plant_life", "discount_rate", "capacity_factor"}

RateChoices == {Num(5), Num(8)}

FactorChoices == {Num(90), Num(45)}

\* The example, completed with the keys it leaves out.
ExampleCompleted ==
    {ExampleGiven @@ ("plant_life" :> Num(20)) @@ ("discount_rate" :> dr)
                  @@ ("capacity_factor" :> cf) :
        dr \in RateChoices, cf \in FactorChoices}

\* Complete assignments: the registry's values, with these changes.
FullInputs ==
    {[UserValues(RegistryTable) EXCEPT
         !["capex_mw_yr"] = capex,
         !["opex_mw_yr"] = opex,
         !["annual_h2_prod"] = prod,
         !["discount_rate"] = dr,
         !["capacity_factor"] = cf,
         !["h2_selling_price"] = price,
         !["tax_credit"] = credit] :
        capex \in {Num(3242), Num(0)},
        opex \in {Num(90000), Num(0), Num(1874640)},
        prod \in {Num(876000), Num(2), Num(0), Num(-5)},
        dr \in RateChoices,
        cf \in FactorChoices,
        price \in {Dec(35, 1), Num(0)},
        credit \in {Num(0), Dec(136, 2), Num(5)}}

\* Assignments with a key missing.
PartialInputs ==
    {ExampleGiven,
     [k \in Keys \ {"crf"} |-> UserValues(RegistryTable)[k]]}

EvalInputs == FullInputs \cup ExampleCompleted \cup PartialInputs

FirstRun == Script(RegistryTable, FALSE, FALSE, NoRes)

EvalInit ==
    /\ Is(FirstRun)
    /\ arg \in EvalInputs
    /\ ret = NotCalled

Evaluate ==
    /\ ret = NotCalled
    /\ ret' = calculate_model(arg)
    /\ UNCHANGED <<session, arg>>

EvalNext == Evaluate

SpecEval == EvalInit /\ [][EvalNext]_vars


\* -------------------------------------------------------------------------
\* Properties of evaluate (SpecEval).
\* -------------------------------------------------------------------------

\* The assignment holds every key calculate_model reads.
Complete(a) == \A i \in DOMAIN ReadKeys : ReadKeys[i] \in DOMAIN a

Called == ret # NotCalled

\* Two Valuation Results are equal field by field.
SameValuation(a, b) ==
    /\ a.error = "none" /\ b.error = "none"
    /\ RatEq(a.capex_per_kg, b.capex_per_kg)
    /\ RatEq(a.opex_per_kg, b.opex_per_kg)
    /\ RatEq(a.elec_per_kg, b.elec_per_kg)
    /\ RatEq(a.carbon_tax_per_kg, b.carbon_tax_per_kg)
    /\ RatEq(a.lcoh, b.lcoh)
    /\ a.money_check = b.money_check
    /\ RatEq(a.revenue, b.revenue)
    /\ RatEq(a.cost, b.cost)
    /\ RatEq(a.profit, b.profit)
    /\ RatEq(a.npv, b.npv)
    /\ RatEq(a.payback, b.payback)
    /\ RatEq(a.roi, b.roi)

\* Every number of a Valuation Result is the result of defined divisions.
AllDefined(r) ==
    /\ Defined(r.capex_per_kg) /\ Defined(r.opex_per_kg)
    /\ Defined(r.elec_per_kg) /\ Defined(r.carbon_tax_per_kg)
    /\ Defined(r.lcoh) /\ Defined(r.revenue) /\ Defined(r.cost)
    /\ Defined(r.profit) /\ Defined(r.npv) /\ Defined(r.payback)
    /\ Defined(r.roi)

\* x is within tol of the decimal lit.
Near(x, lit, tol) ==
    /\ RatLe(RatSub(lit, tol), x)
    /\ RatLe(x, RatAdd(lit, tol))

\* C1: for every complete assignment with annual_h2_prod > 0, calculate_model
\* returns exactly capex_per_kg = capex_mw_yr * crf / annual_h2_prod,
\* opex_per_kg = opex_mw_yr / annual_h2_prod, elec_per_kg = (h2_efficiency_1
\* + h2_efficiency_2) * electricity_cost / 1000, carbon_tax_per_kg =
\* carbon_tax / 1000, lcoh = the sum of the four, the storage and the
\* transport cost less the tax credit, money_check "Money" exactly when lcoh
\* < h2_selling_price, revenue = h2_selling_price * annual_h2_prod, cost =
\* lcoh * annual_h2_prod, profit = revenue - cost, npv = profit * dcf_factor,
\* and payback 5 when profit > 0 and 0 otherwise.
C1_Formulas ==
    (Called /\ Complete(arg) /\ RatGt(arg["annual_h2_prod"], Zero)) =>
        LET prod == arg["annual_h2_prod"]
            capex == RatDiv(RatMul(arg["capex_mw_yr"], arg["crf"]), prod)
            opex == RatDiv(arg["opex_mw_yr"], prod)
            elec == RatDiv(RatMul(RatAdd(arg["h2_efficiency_1"],
                                         arg["h2_efficiency_2"]),
                                  arg["electricity_cost"]),
                           Num(1000))
            tax == RatDiv(arg["carbon_tax"], Num(1000))
            lcoh == RatSub(RatAdd(RatAdd(RatAdd(RatAdd(RatAdd(capex, opex),
                                                       elec),
                                                tax),
                                         arg["h2_storage_cost"]),
                                  arg["h2_transport_cost"]),
                           arg["tax_credit"])
            revenue == RatMul(arg["h2_selling_price"], prod)
            cost == RatMul(lcoh, prod)
            profit == RatSub(revenue, cost)
        IN  /\ ret.error = "none"
            /\ RatEq(ret.capex_per_kg, capex)
            /\ RatEq(ret.opex_per_kg, opex)
            /\ RatEq(ret.elec_per_kg, elec)
            /\ RatEq(ret.carbon_tax_per_kg, tax)
            /\ RatEq(ret.lcoh, lcoh)
            /\ (ret.money_check = "Money") = RatLt(lcoh, arg["h2_selling_price"])
            /\ ret.money_check \in {"Money", "No Money"}
            /\ RatEq(ret.revenue, revenue)
            /\ RatEq(ret.cost, cost)
            /\ RatEq(ret.profit, profit)
            /\ RatEq(ret.npv, RatMul(profit, arg["dcf_factor"]))
            /\ RatGt(profit, Zero) => ret.payback = Num(5)
            /\ ~RatGt(profit, Zero) => ret.payback = Num(0)

\* C1 at work: a complete assignment with a positive production volume and
\* a tax credit has been evaluated, at a profit.
C1_Witness ==
    /\ Called /\ Complete(arg)
    /\ RatGt(arg["annual_h2_prod"], Zero)
    /\ RatGt(arg["tax_credit"], Zero)
    /\ RatGt(ret.profit, Zero)
    /\ ret.payback = Num(5)

\* C3 as the specification has it: roi is 0 if and only if cost is 0, and
\* profit / cost * 100 otherwise.
C3_RoiZeroIffCostZero ==
    (Called /\ Complete(arg)) =>
        /\ IsZero(ret.roi) <=> IsZero(ret.cost)
        /\ ~IsZero(ret.cost) =>
               RatEq(ret.roi, RatMul(RatDiv(ret.profit, ret.cost), Num(100)))

\* C3: for every complete assignment, roi is 0 when cost is 0 and profit /
\* cost * 100 otherwise; so roi is 0 exactly when cost is 0 or profit is 0.
C3_Roi ==
    (Called /\ Complete(arg)) =>
        /\ IsZero(ret.cost) => IsZero(ret.roi)
        /\ ~IsZero(ret.cost) =>
               RatEq(ret.roi, RatMul(RatDiv(ret.profit, ret.cost), Num(100)))
        /\ IsZero(ret.roi) <=> (IsZero(ret.cost) \/ IsZero(ret.profit))

\* C3 at work: an assignment whose cost is 0 (the tax credit cancels the
\* levelized cost) has been evaluated, at a profit.
C3_Witness ==
    /\ Called /\ Complete(arg)
    /\ IsZero(ret.cost)
    /\ ~IsZero(ret.profit)
    /\ IsZero(ret.roi)

\* C5: for every complete assignment with annual_h2_prod <= 0,
\* calculate_model raises nothing and divides by nothing that is zero: every
\* number of the result is defined, capex_per_kg and opex_per_kg are the
\* quotients by 1e-9, and the result is the one of the same assignment with
\* annual_h2_prod = 1e-9.
C5_Epsilon ==
    (Called /\ Complete(arg) /\ RatLe(arg["annual_h2_prod"], Zero)) =>
        /\ ret.error = "none"
        /\ AllDefined(ret)
        /\ RatEq(ret.capex_per_kg,
                 RatMul(RatMul(arg["capex_mw_yr"], arg["crf"]),
                        Num(1000000000)))
        /\ RatEq(ret.opex_per_kg,
                 RatMul(arg["opex_mw_yr"], Num(1000000000)))
        /\ SameValuation(ret,
               calculate_model([arg EXCEPT !["annual_h2_prod"] = Dec(1, 9)]))

\* C5 at work: an assignment with annual_h2_prod = 0 and a nonzero capex and
\* opex has been evaluated.
C5_Witness ==
    /\ Called /\ Complete(arg)
    /\ IsZero(arg["annual_h2_prod"])
    /\ ~IsZero(ret.capex_per_kg)
    /\ ~IsZero(ret.opex_per_kg)

\* What the worked example says of the result.
ExampleResult(r) ==
    /\ r.error = "none"
    /\ Near(r.capex_per_kg, Dec(349, 6), Dec(5, 7))
    /\ Near(r.opex_per_kg, Dec(10274, 5), Dec(5, 6))
    /\ RatEq(r.elec_per_kg, Dec(36, 2))
    /\ Near(r.lcoh, Dec(14631, 4), Dec(5, 5))
    /\ r.money_check = "Money"

\* C8 as the specification has it: the assignment of these thirteen keys and
\* no others evaluates to capex_per_kg ~ 0.000349, opex_per_kg ~ 0.10274,
\* elec_per_kg = 0.36, lcoh ~ 1.4631, "Money".
C8_ThirteenKeys ==
    (Called /\ arg = ExampleGiven) => ExampleResult(ret)

\* C8: the assignment of the example, completed with any plant_life,
\* discount_rate and capacity_factor, evaluates to capex_per_kg ~ 0.000349,
\* opex_per_kg ~ 0.10274, elec_per_kg = 0.36, lcoh ~ 1.4631, "Money" (~:
\* within half a unit of the last digit given).
C8_Example ==
    (/\ Called
     /\ DOMAIN arg = DOMAIN ExampleGiven \cup UnusedKeys
     /\ \A k \in DOMAIN ExampleGiven : arg[k] = ExampleGiven[k])
    => ExampleResult(ret)

\* C8 at work: the completed example has been evaluated.
C8_Witness ==
    /\ Called
    /\ DOMAIN arg = DOMAIN ExampleGiven \cup UnusedKeys
    /\ \A k \in DOMAIN ExampleGiven : arg[k] = ExampleGiven[k]
    /\ ret.error = "none"

\* The values C9 moves discount_rate and capacity_factor to.
RateRange == {Num(0), Num(5), Num(8), Num(15)}

FactorRange == {Num(45), Num(90), Num(100)}

\* C9: the result of calculate_model does not depend on discount_rate or
\* capacity_factor: a complete assignment and any assignment that differs
\* from it in these two keys only have the same result, field by field.
C9_Independent ==
    (Called /\ Complete(arg)) =>
        \A dr \in RateRange : \A cf \in FactorRange :
            SameValuation(ret,
                calculate_model([arg EXCEPT !["discount_rate"] = dr,
                                            !["capacity_factor"] = cf]))

\* C9 at work: an assignment with a discount rate of 8 and a capacity factor
\* of 45 has been evaluated.
C9_Witness ==
    /\ Called /\ Complete(arg)
    /\ arg["discount_rate"] = Num(8)
    /\ arg["capacity_factor"] = Num(45)
    /\ ret.error = "none"

\* -------------------------------------------------------------------------
\* Properties of the session (Spec).
\* -------------------------------------------------------------------------

\* The button was pressed in this run and minimize reported success.
Converged == button /\ res.success

\* The button was pressed in this run and minimize reported failure.
Failed == button /\ ~res.success

\* C2: with the feasibility checkbox set, whenever minimize reports success
\* at a point where h2_selling_price - lcoh >= 0 on the overlay, the result
\* reported for that point is "Money".
C2_NeverInfeasible ==
    (/\ Converged
     /\ enforce_money
     /\ RatLe(Zero, RatSub(final_params["h2_selling_price"], final_res.lcoh)))
    => (final_res.money_check = "Money" /\ shown.money_check = "Money")

\* C4: the button pressed with no key in the decision set: the handler
\* returns without a call of the solver, as converged, with the result of
\* the fixed assignment and no value changed.
C4_EmptyDecisionSet ==
    (button /\ decision_keys = <<>>) =>
        /\ solver_calls = 0
        /\ shown.kind = "success"
        /\ final_res = results
        /\ final_params = user_values

C7_Sweep ==
    /\ DOMAIN plots.charts = {k \in Keys : opt_flags[k].in_opt}
    /\ \A k \in DOMAIN plots.charts :
           LET rows == plots.charts[k]
           IN  /\ Len(rows) = 20
               /\ RatEq(rows[1].ParamValue, opt_flags[k].min)
               /\ RatEq(rows[20].ParamValue, opt_flags[k].max)
               /\ \A i \in 1..19 :
                      RatEq(RatSub(rows[i + 1].ParamValue, rows[i].ParamValue),
                            RatDiv(RatSub(opt_flags[k].max, opt_flags[k].min),
                                   Num(19)))
               /\ \A i \in 1..20 :
                      RatEq(rows[i].NPV,
                            calculate_model(
                                [user_values EXCEPT ![k] = rows[i].ParamValue]
                            ).npv)

\* C7 at work: after the bounds of capex_mw_yr were edited to 100 and 5000,
\* capex_mw_yr has been swept from 100 to 5000 and electricity_cost, bounded
\* by 1 and 700, from 1 to 700.
C7_Witness ==
    /\ "electricity_cost" \in DOMAIN plots.charts
    /\ "capex_mw_yr" \in DOMAIN plots.charts
    /\ plots.charts["electricity_cost"][1].ParamValue = Num(1)
    /\ plots.charts["electricity_cost"][20].ParamValue = Num(700)
    /\ plots.charts["capex_mw_yr"][1].ParamValue = Num(100)
    /\ plots.charts["capex_mw_yr"][20].ParamValue = Num(5000)

\* The position of key k in the registry.
RegistryIndex(k) == CHOOSE i \in DOMAIN parameters : parameters[i].key = k

\* The keys of the decision set.
DecisionSet == {decision_keys[i] : i \in DOMAIN decision_keys}

\* The assignment p agrees with user_values on every key but those of ks.
AgreesOff(p, ks) ==
    /\ DOMAIN p = DOMAIN user_values
    /\ \A k \in DOMAIN p \ ks : p[k] = user_values[k]

\* C10 in a state: user_values and the bounds are those of the table; the
\* assignments objective evaluated, the final assignment and the
\* assignments of the sweep agree with user_values off the decision set
\* (off the swept key); the decision set lists, in registry order, the keys
\* whose box is checked, with the session's min and max as bounds and the
\* current values as the initial guess.
FrameHolds ==
    /\ user_values = [k \in Keys |-> table[k].val]
    /\ opt_flags = [k \in Keys |-> [min |-> table[k].min,
                                    max |-> table[k].max,
                                    in_opt |-> table[k].opt]]
    /\ \A p \in probes : AgreesOff(p, DecisionSet)
    /\ final_params # NoParams =>
           /\ AgreesOff(final_params, DecisionSet)
           /\ \A i \in DOMAIN decision_keys :
                  final_params[decision_keys[i]] = res.x[i]
    /\ \A k \in DOMAIN plots.charts :
           \A i \in DOMAIN plots.charts[k] :
               /\ AgreesOff(plots.charts[k][i].temp_params, {k})
               /\ plots.charts[k][i].temp_params[k]
                      = plots.charts[k][i].ParamValue
    /\ DecisionSet = {k \in Keys : table[k].opt}
    /\ \A i \in DOMAIN decision_keys : \A j \in DOMAIN decision_keys :
           i < j => RegistryIndex(decision_keys[i])
                        < RegistryIndex(decision_keys[j])
    /\ DOMAIN bounds = DOMAIN decision_keys
    /\ DOMAIN x0 = DOMAIN decision_keys
    /\ \A i \in DOMAIN decision_keys :
           /\ bounds[i] = <<table[decision_keys[i]].min,
                            table[decision_keys[i]].max>>
           /\ x0[i] = table[decision_keys[i]].val

\* C10: after any sequence of runs (optimizations that converged or failed,
\* and the sweeps every run makes) the frame holds, and a run that
\* optimizes leaves the table, user_values and the bounds as they were.
C10_Frame ==
    /\ []FrameHolds
    /\ [][button' =>
            /\ table' = table
            /\ user_values' = user_values
            /\ opt_flags' = opt_flags]_vars

\* C10 at work: minimize has converged away from the initial guess, with a
\* key in the decision set and one (at least) outside it.
C10_Witness ==
    /\ Converged
    /\ decision_keys # <<>>
    /\ res.x # x0
    /\ final_params[decision_keys[1]] # user_values[decision_keys[1]]
    /\ DecisionSet # Keys

=============================================================================
